---------------------------- MODULE Spec2Model ----------------------------
(***************************************************************************)
(* Model of the cargo logistics planner (src/app.py, src/modules/          *)
(* fra_engine.py).  src/app.py holds two variants of the Streamlit script  *)
(* one after the other: the first at lines 1-565, the second at lines      *)
(* 566-1059.  `version` says which variant a run executes.                 *)
(*                                                                         *)
(* Text is modelled as a sequence of one-character strings, so that        *)
(* substring tests ("24" in range_str), regular-expression scans,          *)
(* strftime/strptime and the string comparison of clock times are computed *)
(* the way the code computes them.  A clock time is a minute of the day    *)
(* (0..1439); a date is a day number whose weekday is date % 7 (0 = Mon,   *)
(* as datetime.date.weekday()); a datetime is the pair [date, min].        *)
(***************************************************************************)
EXTENDS Integers, Sequences, FiniteSets, TLC

(***************************************************************************)
(* Text helpers                                                            *)
(***************************************************************************)
DigitChars == <<"0", "1", "2", "3", "4", "5", "6", "7", "8", "9">>

IsDigit(c) == \E i \in 1..10 : DigitChars[i] = c

DigitVal(c) == (CHOOSE i \in 1..10 : DigitChars[i] = c) - 1

\* ord() restricted to the characters of a clock time: '0'..'9' < ':'
Ord(c) == IF IsDigit(c) THEN 48 + DigitVal(c) ELSE 58

\* Python's `sub in s` on strings
Contains(sub, s) ==
    \E i \in 1..(Len(s) - Len(sub) + 1) : SubSeq(s, i, i + Len(sub) - 1) = sub

\* Python's `a < b` on strings: lexicographic by code point
RECURSIVE StrLess(_, _)
StrLess(a, b) ==
    IF b = <<>> THEN FALSE
    ELSE IF a = <<>> THEN TRUE
    ELSE IF Ord(Head(a)) < Ord(Head(b)) THEN TRUE
    ELSE IF Ord(Head(a)) > Ord(Head(b)) THEN FALSE
    ELSE StrLess(Tail(a), Tail(b))

UpperLetters == <<"A", "B", "C", "D", "E", "F", "G", "H", "I", "J", "K", "L", "M",
                  "N", "O", "P", "Q", "R", "S", "T", "U", "V", "W", "X", "Y", "Z">>

LowerLetters == <<"a", "b", "c", "d", "e", "f", "g", "h", "i", "j", "k", "l", "m",
                  "n", "o", "p", "q", "r", "s", "t", "u", "v", "w", "x", "y", "z">>

LowerChar(c) ==
    IF \E i \in 1..26 : UpperLetters[i] = c
    THEN LowerLetters[CHOOSE i \in 1..26 : UpperLetters[i] = c]
    ELSE c

\* str.lower()
Lower(s) == [i \in 1..Len(s) |-> LowerChar(s[i])]

\* "%02d"
Fmt2(n) == <<DigitChars[(n \div 10) + 1], DigitChars[(n % 10) + 1]>>

\* datetime.strftime("%H:%M") of a clock time given as minutes; FmtHM(1440)
\* is the text "24:00" that an hours table may hold as a closing time
FmtHM(m) == Fmt2(m \div 60) \o <<":">> \o Fmt2(m % 60)

\* the text "HH:MM-HH:MM" of an hours table
RangeStr(open, close) == FmtHM(open) \o <<"-">> \o FmtHM(close)

\* re.findall(r'\d{1,2}:\d{2}', s): leftmost, greedy, non-overlapping
MatchLenAt(s, i) ==
    IF /\ i + 4 <= Len(s) /\ IsDigit(s[i]) /\ IsDigit(s[i + 1]) /\ s[i + 2] = ":"
       /\ IsDigit(s[i + 3]) /\ IsDigit(s[i + 4])
    THEN 5
    ELSE IF /\ i + 3 <= Len(s) /\ IsDigit(s[i]) /\ s[i + 1] = ":"
            /\ IsDigit(s[i + 2]) /\ IsDigit(s[i + 3])
    THEN 4
    ELSE 0

RECURSIVE FindTimesFrom(_, _)
FindTimesStep(s, i, n) ==
    IF n > 0 THEN <<SubSeq(s, i, i + n - 1)>> \o FindTimesFrom(s, i + n)
    ELSE FindTimesFrom(s, i + 1)

FindTimesFrom(s, i) ==
    IF i > Len(s) THEN <<>> ELSE FindTimesStep(s, i, MatchLenAt(s, i))

FindTimes(s) == FindTimesFrom(s, 1)

\* datetime.strptime(s, "%H:%M").time() as a minute of the day; -1 stands
\* for the ValueError of a text that is no clock time (hour > 23, minute > 59,
\* or not digits:digits)
ParseError == -1

\* the value of one or two digits
Num(t) == IF Len(t) = 1 THEN DigitVal(t[1]) ELSE 10 * DigitVal(t[1]) + DigitVal(t[2])

AllDigits(t) == \A i \in 1..Len(t) : IsDigit(t[i])

ClockOf(h, m) == IF h <= 23 /\ m <= 59 THEN 60 * h + m ELSE ParseError

StrptimeParts(hs, ms) ==
    IF Len(hs) \in {1, 2} /\ Len(ms) \in {1, 2} /\ AllDigits(hs) /\ AllDigits(ms)
    THEN ClockOf(Num(hs), Num(ms))
    ELSE ParseError

StrptimeAt(s, colon) ==
    IF colon = 0 THEN ParseError
    ELSE StrptimeParts(SubSeq(s, 1, colon - 1), SubSeq(s, colon + 1, Len(s)))

Strptime(s) ==
    StrptimeAt(s, IF Len(s) >= 2 /\ s[2] = ":" THEN 2
                  ELSE IF Len(s) >= 3 /\ s[3] = ":" THEN 3 ELSE 0)

(***************************************************************************)
(* Texts of the program and of the hours table                             *)
(***************************************************************************)
S_24 == <<"2", "4">>
S_Daily == <<"D", "a", "i", "l", "y">>
S_Closed == <<"C", "l", "o", "s", "e", "d">>
S_NA == <<"N", "/", "A">>
S_CLOSED == <<"C", "L", "O", "S", "E", "D">>
S_closed == <<"c", "l", "o", "s", "e", "d">>
S_nan == <<"n", "a", "n">>
S_na == <<"n", "/", "a">>
S_Unknown == <<"U", "n", "k", "n", "o", "w", "n">>
S_24Hours == <<"2", "4", " ", "H", "o", "u", "r", "s">>

(***************************************************************************)
(* LogisticsTools.check_time_in_range, first variant                       *)
(***************************************************************************)
\* lines 165-166, and the except of line 167 for a text strptime refuses
InWindow(start, end, check) ==
    IF start = ParseError \/ end = ParseError \/ check = ParseError THEN TRUE
    ELSE IF start <= end THEN start <= check /\ check <= end
    ELSE start <= check \/ check <= end

\* lines 160-164
InTimes(target_time, times) ==
    IF Len(times) # 2 THEN TRUE
    ELSE InWindow(Strptime(times[1]), Strptime(times[2]), Strptime(target_time))

check_time_in_range(target_time, range_str) ==
    IF Contains(S_24, range_str) \/ Contains(S_Daily, range_str) THEN TRUE
    ELSE IF Contains(S_Closed, range_str) \/ Contains(S_NA, range_str) THEN FALSE
    ELSE InTimes(target_time, FindTimes(range_str))

(***************************************************************************)
(* LogisticsTools.check_time_in_range, second variant                      *)
(***************************************************************************)
check_time_in_range2(target_time, range_str) ==
    IF Contains(S_24, range_str) \/ Contains(S_Daily, range_str) THEN TRUE
    ELSE IF Contains(S_Closed, range_str) THEN FALSE
    ELSE TRUE


(***************************************************************************)
(* Inputs of a run.  The airports are fixed (geocoding is outside the      *)
(* model); the widget values, the drive times, the hours table and the     *)
(* flights of the feed are drawn from the sets below.                      *)
(***************************************************************************)
p_code == "SEA"
d_code == "MIA"

OneTime == "One-Time (Ad-Hoc)"
Reoccurring == "Reoccurring"

HM(h, m) == 60 * h + m

\* how many flights the feed returns in one run
MaxFlights == 1

Todays == {9}
ReadyTimes == {HM(9, 0), HM(22, 0)}
DeadlineTimes == {HM(18, 0), HM(1, 0)}
DelDayChoices == {-1, 0, 1}
DaySelections == {<<"Fri", "Sat">>, <<>>}
PickupBuffers == {120}
DeliveryBuffers == {120}
MinConnTimes == {60}

\* rows of cargo_master.csv for one (airport, airline): the three day columns
OriginRows ==
    { [weekday |-> RangeStr(HM(8, 0), HM(17, 0)), saturday |-> S_closed,
       sunday |-> S_24Hours],
      [weekday |-> RangeStr(HM(22, 0), HM(5, 0)), saturday |-> S_Closed,
       sunday |-> S_nan] }

DestRows ==
    { [weekday |-> RangeStr(HM(8, 0), HM(22, 0)), saturday |-> S_Closed,
       sunday |-> S_24Hours] }

\* cargo_master.csv, read by LogisticsTools.__init__: master_df is None
\* (<<>>) when the file is missing, else <<table>>.  The tables drawn here
\* list the airline "AA" at both airports and no other airline, so the
\* flights of "DL" take the web-search fallback.
MasterTables ==
    { << (<<p_code, "AA">> :> o) @@ (<<d_code, "AA">> :> d) >> :
          o \in OriginRows, d \in DestRows }

\* what the web-search fallback can return as hours text
S_WebNoDetails ==
    <<"W", "e", "b", " ", "C", "h", "e", "c", "k", ":", " ", "N", "o", " ",
      "d", "e", "t", "a", "i", "l", "s", " ", "f", "o", "u", "n", "d", ".",
      ".", ".", ".">>
S_WebNoData ==
    <<"W", "e", "b", ":", " ", "N", "o", " ", "d", "a", "t", "a", ".", ".", ".">>

\* a search snippet that begins "Closed weekends", as each variant formats it
S_WebClosed1 ==
    <<"W", "e", "b", " ", "C", "h", "e", "c", "k", ":", " ", "C", "l", "o",
      "s", "e", "d", " ", "w", "e", "e", "k", "e", "n", "d", "s", ".", ".", ".">>
S_WebClosed2 ==
    <<"W", "e", "b", ":", " ", "C", "l", "o", "s", "e", "d", " ", "w", "e",
      "e", "k", "e", "n", "d", "s", ".", ".", ".">>

WebResults1 == { [hours |-> S_WebNoDetails, source |-> "Web Search"],
                 [hours |-> S_WebClosed1, source |-> "Web Search"],
                 [hours |-> S_Unknown, source |-> "No Data"] }
WebResults2 == { [hours |-> S_WebNoData, source |-> "Web Search"],
                 [hours |-> S_WebClosed2, source |-> "Web Search"],
                 [hours |-> S_Unknown, source |-> "None"] }

\* the flights the feed can return for a search date: departure on that
\* date (the feed is queried by outbound_date), arrival `off` days later
Service(airline, number, dep, off, arr, apt, mins) ==
    [airline |-> airline, number |-> number, dep |-> dep, off |-> off,
     arr |-> arr, apt |-> apt, mins |-> mins, fault |-> "none"]

\* an itinerary whose times the feed does not give as "YYYY-MM-DD HH:MM":
\*   "dep":   the departure time reads "YYYY-MM-DD TBD"
\*   "stamp": the arrival time reads "DD/MM/YYYY HH:MM"
\*   "empty": the arrival time is ''
Faulty(svc, fault) == [svc EXCEPT !.fault = fault]

S_TBD == <<"T", "B", "D">>

Timetable ==
    << Service("AA", "AA101", HM(12, 15), 1, HM(14, 45), "Direct", 30),
      Service("AA", "AA102", HM(12, 15), 1, HM(15, 30), "Direct", 30),
      Service("AA", "AA103", HM(12, 15), 1, HM(14, 45), "DFW", 45),
      Service("AA", "AA104", HM(12, 15), 1, HM(14, 45), "DFW", 60),
      Service("AA", "AA105", HM(11, 30), 1, HM(14, 45), "Direct", 30),
      Service("AA", "AA106", HM(11, 30), 1, HM(15, 30), "DFW", 45),
      Service("AA", "AA107", HM(1, 0), 0, HM(23, 0), "DFW", 45),
      Service("AA", "AA108", HM(1, 0), 1, HM(14, 45), "Direct", 30),
      Service("AA", "AA109", HM(12, 15), 0, HM(23, 0), "Direct", 30),
      Service("AA", "AA101", HM(12, 15), 1, HM(14, 45), "Direct", 35),
      Service("DL", "DL200", HM(12, 15), 1, HM(14, 45), "Direct", 0),
      Faulty(Service("AA", "AA120", HM(12, 15), 1, HM(14, 45), "Direct", 30), "dep"),
      Faulty(Service("AA", "AA121", HM(12, 15), 1, HM(15, 30), "Direct", 30), "stamp"),
      Faulty(Service("AA", "AA122", HM(12, 15), 1, HM(14, 45), "Direct", 30), "empty") >>

\* the row search_flights builds from one itinerary of the feed (lines
\* 284-297, 761-774): the feed's times are "YYYY-MM-DD HH:MM"
\* dep_full.split()[-1]
DepText(svc) == IF svc.fault = "dep" THEN S_TBD ELSE FmtHM(svc.dep)

\* 'Arr Full' keeps the feed's text: its date, its clock time, and whether
\* the text has the form "%Y-%m-%d %H:%M" that line 476 / 932 parses
FlightRow(svc, date) ==
    [ Airline |-> svc.airline, Flight |-> svc.number,
      DepTime |-> DepText(svc),
      DepFull |-> [date |-> date, time |-> DepText(svc)],
      ArrTime |-> FmtHM(svc.arr),
      ArrFull |-> [date |-> date + svc.off, time |-> FmtHM(svc.arr),
                   iso |-> svc.fault # "stamp"],
      ConnApt |-> svc.apt, ConnMin |-> svc.mins ]

\* the itineraries search_flights keeps (line 282: if not dep_full or not
\* arr_full: continue)
Returned == SelectSeq(Timetable, LAMBDA svc : svc.fault # "empty")

\* LogisticsTools.search_flights: the rows that can come back for one date,
\* in the order of the feed
search_flights(date) == [k \in 1..Len(Returned) |-> FlightRow(Returned[k], date)]

\* the place of a row in the feed (the feed may list a flight twice, as two
\* itineraries that differ in the layover)
FeedIndex(f) ==
    CHOOSE k \in 1..Len(Returned) :
        Returned[k].number = f.Flight /\ Returned[k].mins = f.ConnMin

(***************************************************************************)
(* State                                                                   *)
(***************************************************************************)
VARIABLES
    version,            \* 1: the script of lines 1-565, 2: lines 566-1059
    today,              \* datetime.date.today()
    master,             \* LogisticsTools.master_df: <<>> or <<table>>
    mode, p_time, p_date, has_deadline, del_time, del_offset,
    days_selected,      \* the multiselect's value, in the order selected
    days_to_search, custom_p_buff, custom_d_buff, min_conn_filter,
    d1, d2,             \* time_min of the two drive legs
    total_prep, earliest_dep_dt, earliest_dep_str,
    total_post, latest_arr_dt,
    airline_hours_cache, valid_flights, rejected_flights,
    day_idx,            \* position of the loop over days_to_search
    n_flights,          \* flights classified so far in this run
    classified,         \* history: one entry per classified flight
    hours_calls,        \* history: the keys get_cargo_hours was called for
    final_rows,         \* the rows of the schedule table (final_rows / rows)
    report,             \* which branch of the output section ran
    range_call,         \* the last check_time_in_range call of SpecRange
    reliability,        \* the last analyze_reliability call of SpecRisk
    buffer_math,        \* the buffer math of SpecWindow for two buffer values
    session_state,      \* st.session_state: its keys and their values
    gate_run,           \* what check_password did in the last script run
    submitted,          \* history: the passwords submitted in this session
    pc

widgets == <<mode, p_time, p_date, has_deadline, del_time, del_offset,
             days_selected, days_to_search, custom_p_buff, custom_d_buff, min_conn_filter>>
windows == <<d1, d2, total_prep, earliest_dep_dt, earliest_dep_str,
             total_post, latest_arr_dt>>
results == <<airline_hours_cache, valid_flights, rejected_flights, day_idx,
             n_flights, classified, hours_calls>>
output == <<final_rows, report>>
env == <<version, today, master>>
calls == <<range_call, reliability, buffer_math>>
gate == <<session_state, gate_run, submitted>>
vars == <<env, widgets, windows, results, output, calls, gate, pc>>

\* an optional value: <<>> is None, <<x>> is x
None == <<>>
Some(x) == <<x>>

InitOn(todays) ==
    /\ version \in {1, 2}
    /\ today \in todays
    /\ master \in MasterTables
    /\ mode = OneTime
    /\ p_time = HM(9, 0)
    /\ p_date = today + 1
    /\ has_deadline = TRUE
    /\ del_time = None
    /\ del_offset = 0
    /\ days_selected = <<>>
    /\ days_to_search = <<>>
    /\ custom_p_buff = 120
    /\ custom_d_buff = 120
    /\ min_conn_filter = 60
    /\ d1 = 30
    /\ d2 = 30
    /\ total_prep = 0
    /\ earliest_dep_dt = [date |-> 0, min |-> 0]
    /\ earliest_dep_str = <<>>
    /\ total_post = 0
    /\ latest_arr_dt = None
    /\ airline_hours_cache = <<>>
    /\ valid_flights = <<>>
    /\ rejected_flights = <<>>
    /\ day_idx = 1
    /\ n_flights = 0
    /\ classified = <<>>
    /\ hours_calls = <<>>
    /\ final_rows = <<>>
    /\ report = "not run"
    /\ range_call = [called |-> FALSE]
    /\ reliability = [called |-> FALSE]
    /\ buffer_math = [called |-> FALSE]
    /\ session_state = <<>>
    /\ gate_run = [ran |-> FALSE]
    /\ submitted = <<>>
    /\ pc = "sidebar"

Init == InitOn(Todays)

(***************************************************************************)
(* Dates and datetimes                                                     *)
(***************************************************************************)
\* datetime.datetime.combine(date, time)
Combine(date, min) == [date |-> date, min |-> min]

\* a faulty variant that keeps the clock time and loses the day carry (C23
\* must tell it apart)
AddMinutes_m(dt, k) == [date |-> dt.date, min |-> (dt.min + k) % 1440]

\* dt + datetime.timedelta(minutes=k), k of either sign
AddMinutes(dt, k) ==
    [date |-> dt.date + ((dt.min + k) \div 1440), min |-> (dt.min + k) % 1440]

\* minutes since day 0 at 00:00: the order of datetimes
Instant(dt) == 1440 * dt.date + dt.min

\* date_obj.strftime("%A") mapped through col_map
day_col(date) ==
    IF date % 7 = 5 THEN "saturday"
    ELSE IF date % 7 = 6 THEN "sunday"
    ELSE "weekday"

day_map == ("Mon" :> 0) @@ ("Tue" :> 1) @@ ("Wed" :> 2) @@ ("Thu" :> 3) @@
           ("Fri" :> 4) @@ ("Sat" :> 5) @@ ("Sun" :> 6)

\* a faulty variant that lets a selected weekday equal to today's weekday
\* yield today (C15 must tell it apart)
ExpandDays_m(selected, tday) ==
    [ i \in 1..Len(selected) |->
        LET target == day_map[selected[i]]
            ahead0 == target - (tday % 7)
            ahead == IF ahead0 < 0 THEN ahead0 + 7 ELSE ahead0
        IN  [day |-> selected[i], date |-> tday + ahead] ]

\* the loop that fills days_to_search in recurring mode
ExpandDays(selected, tday) ==
    [ i \in 1..Len(selected) |->
        LET target == day_map[selected[i]]
            ahead0 == target - (tday % 7)
            ahead == IF ahead0 <= 0 THEN ahead0 + 7 ELSE ahead0
        IN  [day |-> selected[i], date |-> tday + ahead] ]

(***************************************************************************)
(* LogisticsTools.get_cargo_hours: the set of records a call can return    *)
(* (the web-search fallback answers with whatever the search engine has).  *)
(* The master file's airline column is matched by key; the status field of *)
(* the first variant is never read and is left out.                        *)
(***************************************************************************)
InMaster(airport_code, airline) ==
    master # <<>> /\ <<airport_code, airline>> \in DOMAIN master[1]

get_cargo_hours(airport_code, airline, date_obj) ==
    IF InMaster(airport_code, airline)
    THEN LET hours_str == master[1][<<airport_code, airline>>][day_col(date_obj)]
         IN  IF Lower(hours_str) \in {S_nan, S_closed, S_na}
             THEN {[hours |-> S_CLOSED, source |-> "Master File"]}
             ELSE {[hours |-> hours_str, source |-> "Master File"]}
    ELSE WebResults1

get_cargo_hours2(airport_code, airline, date_obj) ==
    IF InMaster(airport_code, airline)
    THEN {[hours |-> master[1][<<airport_code, airline>>][day_col(date_obj)],
           source |-> "Master File"]}
    ELSE WebResults2

(***************************************************************************)
(* The rules of the classification loops                                   *)
(***************************************************************************)
NoReject == "None"

\* (strptime(f['Dep Time']) - 120 minutes).strftime("%H:%M")
TenderTime(f) == FmtHM((Strptime(f.DepTime) - 120) % 1440)

\* (strptime(f['Arr Time']) + 60 minutes).strftime("%H:%M")
RecoveryTime(f) == FmtHM((Strptime(f.ArrTime) + 60) % 1440)

OriginClosed(f, p_hours) ==
    IF version = 1
    THEN ~check_time_in_range(TenderTime(f), p_hours.hours)
    ELSE ~check_time_in_range2(TenderTime(f), p_hours.hours)

DestClosed(f, d_hours) ==
    IF version = 1
    THEN ~check_time_in_range(RecoveryTime(f), d_hours.hours)
    ELSE ~check_time_in_range2(RecoveryTime(f), d_hours.hours)

\* f['Dep Time'] < earliest_dep_str
TooEarly(f) == StrLess(f.DepTime, earliest_dep_str)

\* a faulty variant that forgets the "Direct" exemption (C7 must tell it apart)
ShortConn_m(f) == f.ConnMin < min_conn_filter

ShortConn(f) == f.ConnApt # "Direct" /\ f.ConnMin < min_conn_filter

\* first variant: only the arrival date is compared
ArrivesLate1(f, day_obj) ==
    f.ArrFull.iso /\ f.ArrFull.date > day_obj.date + del_offset

\* second variant: day offset, then clock time against latest_arr_dt.time()
ArrivesLate2(f, day_obj) ==
    LET offset_days == f.ArrFull.date - day_obj.date
    IN  /\ f.ArrFull.iso
        /\ \/ offset_days > del_offset
           \/ /\ offset_days = del_offset
              /\ Strptime(f.ArrFull.time) > latest_arr_dt[1].min

\* reject_reason after the four checks of the first variant (lines 458-479)
TenderCheck1(f, p_hours) ==
    IF OriginClosed(f, p_hours) THEN "Origin Closed" ELSE NoReject

DepCheck1(f, reject) ==
    IF TooEarly(f) /\ reject = NoReject THEN "Too Early" ELSE reject

ConnCheck1(f, reject) ==
    IF ShortConn(f) /\ reject = NoReject THEN "Short Conn" ELSE reject

ArrCheck1(f, day_obj, reject) ==
    IF latest_arr_dt # None /\ reject = NoReject /\ ArrivesLate1(f, day_obj)
    THEN "Arrives Too Late" ELSE reject

RejectReason1(f, day_obj, p_hours) ==
    ArrCheck1(f, day_obj, ConnCheck1(f, DepCheck1(f, TenderCheck1(f, p_hours))))

\* reject after the four checks of the second variant (lines 916-938)
TenderCheck2(f, p_hours) ==
    IF OriginClosed(f, p_hours) THEN "Org Closed" ELSE NoReject

DepCheck2(f, reject) == IF TooEarly(f) THEN "Too Early" ELSE reject

ConnCheck2(f, reject) == IF ShortConn(f) THEN "Short Conn" ELSE reject

ArrCheck2(f, day_obj, reject) ==
    IF latest_arr_dt # None /\ reject = NoReject /\ ArrivesLate2(f, day_obj)
    THEN "Arrives Late" ELSE reject

RejectReason2(f, day_obj, p_hours) ==
    ArrCheck2(f, day_obj, ConnCheck2(f, DepCheck2(f, TenderCheck2(f, p_hours))))

\* the row appended by the first variant (lines 461-466, 481-488)
\* lines 461-466: the note is set when the tender check passed
RecoveryNote1(f, first_reject, d_hours) ==
    IF first_reject = NoReject /\ DestClosed(f, d_hours)
    THEN f @@ ("Note" :> "AM Recovery") ELSE f

\* lines 481-488
Row1(noted, reason, day_obj, d_hours) ==
    IF reason # NoReject
    THEN noted @@ ("Reason" :> reason) @@ ("Day" :> day_obj.day)
    ELSE noted @@ ("DaysOfOp" :> day_obj.day) @@ ("DestHours" :> d_hours.hours)

Classify1(f, day_obj, p_hours, d_hours) ==
    Row1(RecoveryNote1(f, TenderCheck1(f, p_hours), d_hours),
         RejectReason1(f, day_obj, p_hours), day_obj, d_hours)

\* the row appended by the second variant (lines 940-954)
\* lines 940-954
Row2(f, reason, day_obj, d_hours) ==
    IF reason # NoReject
    THEN f @@ ("Reason" :> reason)
    ELSE f @@ ("DaysOfOp" :> day_obj.day) @@ ("DestHours" :> d_hours.hours)
           @@ ("Note" :> IF DestClosed(f, d_hours) THEN "AM Recovery" ELSE "OK")

Classify2(f, day_obj, p_hours, d_hours) ==
    Row2(f, RejectReason2(f, day_obj, p_hours), day_obj, d_hours)

\* a faulty variant in which closed destination hours reject the flight
\* (C5 must tell it apart)
Classify_DestRejects(f, day_obj, p_hours, d_hours) ==
    IF DestClosed(f, d_hours)
    THEN f @@ ("Reason" :> "Dest Closed") @@ ("Day" :> day_obj.day)
    ELSE IF version = 1 THEN Classify1(f, day_obj, p_hours, d_hours)
    ELSE Classify2(f, day_obj, p_hours, d_hours)

Classify(f, day_obj, p_hours, d_hours) ==
    IF version = 1 THEN Classify1(f, day_obj, p_hours, d_hours)
    ELSE Classify2(f, day_obj, p_hours, d_hours)

IsRejected(row) == "Reason" \in DOMAIN row

(***************************************************************************)
(* The sidebar (lines 309-363 and 782-842): the widget values of one       *)
(* script run, del_offset and days_to_search.                              *)
(***************************************************************************)
RecurringOffsets2 == {0, 1, 2}

SidebarWith(m, pt, hd, dd, dt, sel, pb, db, mc) ==
    /\ pc = "sidebar"
    /\    LET pdate == IF m = OneTime THEN today + 1 ELSE today
              offset == IF hd THEN dd ELSE 0
          IN  /\ IF version = 2 /\ m = Reoccurring
                 THEN dd \in RecurringOffsets2
                 ELSE dd \in DelDayChoices
              /\ mode' = m
              /\ p_time' = pt
              /\ p_date' = pdate
              /\ has_deadline' = hd
              /\ del_time' = IF hd THEN Some(dt) ELSE None
              /\ del_offset' = offset
              /\ days_selected' = IF m = OneTime THEN <<>> ELSE sel
              /\ days_to_search' =
                     IF m = OneTime THEN <<[day |-> "One-Time", date |-> pdate]>>
                     ELSE ExpandDays(sel, today)
              /\ custom_p_buff' = pb
              /\ custom_d_buff' = db
              /\ min_conn_filter' = mc
              /\ pc' = IF version = 1 /\ m = OneTime /\ hd /\ offset < 0
                       THEN "stopped" ELSE "ready"
    /\ UNCHANGED <<env, windows, results, output, calls, gate>>

Sidebar ==
    \E m \in {OneTime, Reoccurring}, pt \in ReadyTimes, hd \in BOOLEAN,
       dd \in DelDayChoices \cup RecurringOffsets2, dt \in DeadlineTimes,
       sel \in DaySelections, pb \in PickupBuffers, db \in DeliveryBuffers,
       mc \in MinConnTimes :
       SidebarWith(m, pt, hd, dd, dt, sel, pb, db, mc)

(***************************************************************************)
(* The run button up to the buffer math (lines 365-428 and 848-895)        *)
(***************************************************************************)
\* the fallback of a failed get_road_metrics (lines 400-401, 874-875)
DriveFallbackMin == 30

\* the results of the two get_road_metrics calls of a run (None: no route)
RoadMetrics == {<<Some(90), None>>, <<Some(150), Some(150)>>}

TimeMin(metrics) == IF metrics = None THEN DriveFallbackMin ELSE metrics[1]

\* a faulty variant that adds drive time and buffer (C8 must tell it apart)
TotalPrep_m(drive_min, buff) == drive_min + buff + 60

TotalPrep(drive_min, buff) ==
    (IF drive_min >= buff THEN drive_min ELSE buff) + 60

TotalPost(drive_min, buff) ==
    (IF drive_min >= buff THEN drive_min ELSE buff) + 60

EarliestDep(base, ready, prep) == AddMinutes(Combine(base, ready), prep)

\* a faulty variant that drops the transit offset days (C9 must tell it apart)
LatestArr_m(base, offset, deadline, post) ==
    AddMinutes(Combine(base, deadline), 0 - post)

LatestArr(base, offset, deadline, post) ==
    AddMinutes(Combine(base + offset, deadline), 0 - post)

Prepare ==
    /\ pc = "ready"
    /\ \E metrics \in RoadMetrics :
          LET t1 == TimeMin(metrics[1])
              t2 == TimeMin(metrics[2])
              prep == TotalPrep(t1, custom_p_buff)
              post == TotalPost(t2, custom_d_buff)
              dated == mode = OneTime \/ days_to_search # <<>>
              base == IF mode = OneTime THEN p_date
                      ELSE IF days_to_search # <<>> THEN days_to_search[1].date
                      ELSE 0
              edt == EarliestDep(base, p_time, prep)
              deadline == IF version = 1 THEN has_deadline /\ del_time # None
                          ELSE del_time # None
          IN  /\ d1' = t1
              /\ d2' = t2
              /\ total_prep' = prep
              /\ total_post' = IF version = 2 \/ (dated /\ deadline) THEN post ELSE 0
              /\ IF dated
                 THEN /\ earliest_dep_dt' = edt
                      /\ earliest_dep_str' = FmtHM(edt.min)
                      /\ latest_arr_dt' =
                             IF deadline
                             THEN Some(LatestArr(base, del_offset, del_time[1], post))
                             ELSE None
                      /\ pc' = "flights"
                 ELSE \* no day selected: st.stop() (line 412), IndexError (line 884)
                      /\ UNCHANGED <<earliest_dep_dt, earliest_dep_str, latest_arr_dt>>
                      /\ pc' = IF version = 1 THEN "stopped" ELSE "crashed"
    /\ UNCHANGED <<env, widgets, results, output, calls, gate>>

(***************************************************************************)
(* One iteration of the loop over the flights of a search date (lines      *)
(* 443-488 and 907-954).  raw_data is any sub-list of the feed: an         *)
(* iteration takes a flight that comes later in the feed than the flights  *)
(* already classified for this date.                                       *)
(***************************************************************************)
\* a faulty variant that looks the hours up for every flight (C26 must tell
\* it apart)
HoursFor_m(cache, airport_code, airline, date_obj) ==
    IF version = 1 THEN get_cargo_hours(airport_code, airline, date_obj)
    ELSE get_cargo_hours2(airport_code, airline, date_obj)

HoursFor(cache, airport_code, airline, date_obj) ==
    IF <<airport_code, airline>> \in DOMAIN cache
    THEN {cache[<<airport_code, airline>>]}
    ELSE IF version = 1 THEN get_cargo_hours(airport_code, airline, date_obj)
    ELSE get_cargo_hours2(airport_code, airline, date_obj)

\* the keys of an airline that are not in the cache, for which lines
\* 449-452 / 910-913 call get_cargo_hours
Missing(cache, airline) ==
    SelectSeq(<< <<p_code, airline>>, <<d_code, airline>> >>,
              LAMBDA key : key \notin DOMAIN cache)

ClassifyOne(limit) ==
    /\ pc = "flights"
    /\ day_idx <= Len(days_to_search)
    /\ n_flights < limit
    /\ LET day_obj == days_to_search[day_idx]
       IN  \E k \in 1..Len(Returned) :
           \E f \in {search_flights(day_obj.date)[k]} :
           \E p_hours \in HoursFor(airline_hours_cache, p_code, f.Airline, day_obj.date) :
           \E d_hours \in HoursFor(airline_hours_cache, d_code, f.Airline, day_obj.date) :
              /\ \A i \in 1..Len(classified) :
                     classified[i].day_obj = day_obj => FeedIndex(classified[i].f) < k
              /\ airline_hours_cache' =
                     (<<p_code, f.Airline>> :> p_hours) @@
                     (<<d_code, f.Airline>> :> d_hours) @@ airline_hours_cache
              /\ hours_calls' = hours_calls \o Missing(airline_hours_cache, f.Airline)
              /\ IF Strptime(f.DepTime) = ParseError
                 THEN \* strptime(f['Dep Time'], "%H:%M") raises ValueError at
                      \* line 455 / 920, outside any try: the run ends there
                      /\ pc' = "crashed"
                      /\ report' = "ValueError"
                      /\ UNCHANGED <<classified, valid_flights, rejected_flights,
                                     final_rows>>
                 ELSE /\ classified' = Append(classified,
                             [f |-> f, day_obj |-> day_obj, p_hours |-> p_hours,
                              d_hours |-> d_hours,
                              row |-> Classify(f, day_obj, p_hours, d_hours)])
                      /\ valid_flights' =
                             IF IsRejected(classified'[Len(classified')].row)
                             THEN valid_flights
                             ELSE Append(valid_flights,
                                         classified'[Len(classified')].row)
                      /\ rejected_flights' =
                             IF IsRejected(classified'[Len(classified')].row)
                             THEN Append(rejected_flights,
                                         classified'[Len(classified')].row)
                             ELSE rejected_flights
                      /\ UNCHANGED <<output, pc>>
    /\ n_flights' = n_flights + 1
    /\ UNCHANGED <<env, widgets, windows, day_idx, calls, gate>>

ClassifyFlight == ClassifyOne(MaxFlights)

(***************************************************************************)
(* The output section (lines 537-565 and 1024-1057): the accepted flights  *)
(* are grouped by (Airline, Flight, Dep Time, Arr Time) in a dict, whose   *)
(* values come out in the order the keys were first inserted.  The joined  *)
(* 'Days of Op' text is kept as the sequence of its day labels.            *)
(***************************************************************************)
Key(f) == <<f.Airline, f.Flight, f.DepTime, f.ArrTime>>

\* the positions of flights at which a key is inserted into grouped
Inserted(flights) ==
    {i \in 1..Len(flights) : \A j \in 1..(i - 1) : Key(flights[j]) # Key(flights[i])}

\* the elements of a set of positions, ascending
Ascending(S) ==
    CHOOSE s \in [1..Cardinality(S) -> S] : \A a, b \in DOMAIN s : a < b => s[a] < s[b]

DayOrder == <<"Mon", "Tue", "Wed", "Thu", "Fri", "Sat", "Sun", "One-Time">>

DayRank(x) ==
    IF \E k \in DOMAIN DayOrder : DayOrder[k] = x
    THEN (CHOOSE k \in DOMAIN DayOrder : DayOrder[k] = x) - 1
    ELSE 99

\* a faulty variant that lists the labels in reverse (C24 must tell it apart)
SortedDays_m(S) ==
    CHOOSE s \in [1..Cardinality(S) -> S] :
        \A a, b \in DOMAIN s : a < b => DayRank(s[a]) > DayRank(s[b])

\* sorted(list(f['Days of Op']), key=...)
SortedDays(S) ==
    CHOOSE s \in [1..Cardinality(S) -> S] :
        \A a, b \in DOMAIN s : a < b => DayRank(s[a]) < DayRank(s[b])

\* grouped[key]['Days of Op'] after the first loop
DaysOfKey(flights, key) ==
    {flights[i].DaysOfOp : i \in {j \in 1..Len(flights) : Key(flights[j]) = key}}

GroupedRow(flights, i) ==
    [flights[i] EXCEPT !.DaysOfOp = SortedDays(DaysOfKey(flights, Key(flights[i])))]

\* a faulty variant that never merges two flights (C17 must tell it apart)
Grouped_m(flights) ==
    [k \in 1..Len(flights) |->
        [flights[k] EXCEPT !.DaysOfOp = <<flights[k].DaysOfOp>>]]

Grouped(flights) ==
    [k \in 1..Cardinality(Inserted(flights)) |->
        GroupedRow(flights, Ascending(Inserted(flights))[k])]

\* df[cols] of the first variant names the column "Note", which the frame
\* has only when some accepted flight carries a note (KeyError otherwise)
TableColumnsMissing(rows) ==
    version = 1 /\ \A i \in 1..Len(rows) : "Note" \notin DOMAIN rows[i]

Output ==
    IF valid_flights # <<>>
    THEN /\ final_rows' = Grouped(valid_flights)
         /\ report' = IF TableColumnsMissing(valid_flights) THEN "KeyError"
                       ELSE "schedule"
         /\ pc' = IF TableColumnsMissing(valid_flights) THEN "crashed" ELSE "done"
    ELSE /\ final_rows' = final_rows
         /\ report' = IF version = 2 THEN "no verified flights"
                       ELSE IF rejected_flights # <<>> THEN "rejected"
                       ELSE "no flights found"
         /\ pc' = "done"

\* the feed has no further flight for this date (or failed): the next date,
\* and after the last date the output section, which ends the run
NextDay ==
    /\ pc = "flights"
    /\ day_idx <= Len(days_to_search)
    /\ day_idx' = day_idx + 1
    /\ IF day_idx = Len(days_to_search) THEN Output
       ELSE UNCHANGED <<output, pc>>
    /\ UNCHANGED <<env, widgets, windows, airline_hours_cache, valid_flights,
                   rejected_flights, n_flights, classified, hours_calls, calls, gate>>

Next == Sidebar \/ Prepare \/ ClassifyFlight \/ NextDay

Spec == Init /\ [][Next]_vars

(***************************************************************************)
(* SpecWeek: recurring runs over two search dates with up to               *)
(* MaxWeekFlights flights, the pickup at 09:00 and no deadline.            *)
(***************************************************************************)
MaxWeekFlights == 2

WeekSelections == {<<"Fri", "Sat">>, <<"Fri", "Mon">>}

SidebarWeek ==
    \E sel \in WeekSelections :
       SidebarWith(Reoccurring, HM(9, 0), FALSE, 0, HM(18, 0), sel, 120, 120, 60)

ClassifyWeekFlight == ClassifyOne(MaxWeekFlights)

NextWeek == SidebarWeek \/ Prepare \/ ClassifyWeekFlight \/ NextDay

SpecWeek == Init /\ [][NextWeek]_vars

(***************************************************************************)
(* SpecExpand: the sidebar in recurring mode for every today of a week and *)
(* every selection of up to MaxSelected weekdays, in every order.          *)
(***************************************************************************)
MaxSelected == 2

ExpandTodays == 7..13

Weekdays == {"Mon", "Tue", "Wed", "Thu", "Fri", "Sat", "Sun"}

\* what st.multiselect can return: distinct options in the order selected
Selections ==
    { s \in UNION { [1..k -> Weekdays] : k \in 0..MaxSelected } :
        \A i, j \in DOMAIN s : i # j => s[i] # s[j] }

InitExpand == InitOn(ExpandTodays)

SidebarExpand ==
    \E sel \in Selections :
       SidebarWith(Reoccurring, HM(9, 0), FALSE, 0, HM(18, 0), sel, 120, 120, 60)

NextExpand == SidebarExpand

SpecExpand == InitExpand /\ [][NextExpand]_vars

(***************************************************************************)
(* SpecRange: check_time_in_range as a pure function.  One call on an      *)
(* hours text "HH:MM-HH:MM" and a target clock time; `version` selects the *)
(* variant of the function.                                                *)
(***************************************************************************)
WindowClockTimes ==
    {HM(0, 0), HM(2, 0), HM(5, 0), HM(8, 0), HM(8, 24), HM(12, 0), HM(17, 0),
     HM(22, 0), HM(23, 30)}

\* a closing time may also be written 24:00
WindowCloseTimes == WindowClockTimes \cup {HM(24, 0)}

RangeCall ==
    /\ pc = "sidebar"
    /\ ~range_call.called
    /\ \E open \in WindowClockTimes, close \in WindowCloseTimes,
          t \in WindowClockTimes :
          range_call' =
              [called |-> TRUE, open |-> open, close |-> close, t |-> t,
               range_str |-> RangeStr(open, close), target_time |-> FmtHM(t),
               result |-> IF version = 1
                          THEN check_time_in_range(FmtHM(t), RangeStr(open, close))
                          ELSE check_time_in_range2(FmtHM(t), RangeStr(open, close))]
    /\ UNCHANGED <<env, widgets, windows, results, output, reliability, buffer_math, gate, pc>>

NextRange == RangeCall

SpecRange == Init /\ [][NextRange]_vars

(***************************************************************************)
(* SpecWindow: the buffer math (lines 403-428 and 877-895) computed for    *)
(* one drive duration per leg, one ready time and one deadline, and two    *)
(* values of each drive buffer, all other inputs the same.                 *)
(***************************************************************************)
\* time_min of a leg, the fallback of a failed lookup included
DriveMinutes == {DriveFallbackMin, 90, 150}

\* values of the "Pickup Drive Buffer" / "Delivery Drive Buffer" inputs
BufferChoices == {0, 30, 120, 180, 240}

\* values of "Must Arrive By"
WindowDeadlines == {HM(18, 0), HM(2, 0)}

Window(drive1, drive2, ready, deadline, offset, p_buff, d_buff) ==
    [ p_buff |-> p_buff, d_buff |-> d_buff,
      total_prep |-> TotalPrep(drive1, p_buff),
      total_post |-> TotalPost(drive2, d_buff),
      earliest_dep_dt |-> EarliestDep(p_date, ready, TotalPrep(drive1, p_buff)),
      latest_arr_dt |-> LatestArr(p_date, offset, deadline, TotalPost(drive2, d_buff)) ]

BufferMath ==
    /\ pc = "sidebar"
    /\ ~buffer_math.called
    /\ \E drive1 \in DriveMinutes, drive2 \in DriveMinutes, ready \in ReadyTimes,
          deadline \in WindowDeadlines, lo \in BufferChoices, hi \in BufferChoices :
          /\ lo <= hi
          /\ buffer_math' =
                 [called |-> TRUE, d1 |-> drive1, d2 |-> drive2,
                  lower |-> Window(drive1, drive2, ready, deadline, 1, lo, lo),
                  higher |-> Window(drive1, drive2, ready, deadline, 1, hi, hi)]
    /\ UNCHANGED <<env, widgets, windows, results, output, range_call, reliability, gate, pc>>

NextWindow == BufferMath

SpecWindow == Init /\ [][NextWindow]_vars

(***************************************************************************)
(* SpecRisk: fra_engine.analyze_reliability as a pure function of what its *)
(* two lookups return: the flight record of get_flight_details (None when  *)
(* the flight is not found) and the forecast of get_weather_forecast (None *)
(* when the service has no TAF, the text "Weather Data Unavailable" when   *)
(* the request fails, else the raw TAF).                                   *)
(***************************************************************************)
S_TS == <<"T", "S">>
S_FG == <<"F", "G">>
S_BR == <<"B", "R">>
S_SN == <<"S", "N">>
S_VV == <<"V", "V">>
S_NoTAF ==
    <<"N", "o", " ", "T", "A", "F", " ", "A", "v", "a", "i", "l", "a", "b", "l", "e">>
S_WeatherUnavailable ==
    <<"W", "e", "a", "t", "h", "e", "r", " ", "D", "a", "t", "a", " ",
      "U", "n", "a", "v", "a", "i", "l", "a", "b", "l", "e">>
S_cancelled == <<"c", "a", "n", "c", "e", "l", "l", "e", "d">>
S_incident == <<"i", "n", "c", "i", "d", "e", "n", "t">>
S_diverted == <<"d", "i", "v", "e", "r", "t", "e", "d">>

\* the weather groups a raw TAF can carry after its header
TafHeader == <<"T", "A", "F", " ", "K", "M", "I", "A">>

TafGroups ==
    << <<" ", "T", "S", "R", "A">>, <<" ", "F", "G">>, <<" ", "B", "R">>,
       <<" ", "-", "S", "N">>, <<" ", "V", "V", "0", "0", "2">> >>

RECURSIVE TafFrom(_, _)
TafFrom(chosen, k) ==
    IF k > Len(TafGroups) THEN <<>>
    ELSE (IF k \in chosen THEN TafGroups[k] ELSE <<>>) \o TafFrom(chosen, k + 1)

RawTafs == {TafHeader \o TafFrom(chosen, 1) : chosen \in SUBSET (1..Len(TafGroups))}

\* get_weather_forecast(icao_code)
Forecasts == {None, Some(S_WeatherUnavailable)} \cup {Some(t) : t \in RawTafs}

\* flight['status'] of the flight service
FlightStatuses ==
    { <<"a", "c", "t", "i", "v", "e">>, <<"l", "a", "n", "d", "e", "d">>,
      S_cancelled, <<"C", "a", "n", "c", "e", "l", "l", "e", "d">>,
      S_incident, S_diverted }

\* get_flight_details(flight_iata, api_key)
FlightDetails == {None} \cup {Some([status |-> s]) : s \in FlightStatuses}

\* Step C, Logic 1 (lines 69-84)
WeatherScore(taf_raw) ==
    100 - (IF Contains(S_TS, taf_raw) THEN 30 ELSE 0)
        - (IF Contains(S_FG, taf_raw) \/ Contains(S_BR, taf_raw) THEN 20 ELSE 0)
        - (IF Contains(S_SN, taf_raw) THEN 40 ELSE 0)
        - (IF Contains(S_VV, taf_raw) THEN 30 ELSE 0)

WeatherRisks(taf_raw) ==
    (IF Contains(S_TS, taf_raw) THEN <<"Thunderstorms in Forecast">> ELSE <<>>)
    \o (IF Contains(S_FG, taf_raw) \/ Contains(S_BR, taf_raw)
        THEN <<"Low Visibility (Fog/Mist)">> ELSE <<>>)
    \o (IF Contains(S_SN, taf_raw) THEN <<"Snow/Icing Operations">> ELSE <<>>)
    \o (IF Contains(S_VV, taf_raw)
        THEN <<"Obscured Ceiling (Low Approach)">> ELSE <<>>)

\* Logic 2 (lines 87-96)
StatusScore(status_lower, score) ==
    IF status_lower \in {S_cancelled, S_incident, S_diverted} THEN 0 ELSE score

StatusRisks(status_lower) ==
    IF status_lower = S_cancelled THEN <<"Flight Already Cancelled">>
    ELSE IF status_lower = S_incident THEN <<"Active Incident">>
    ELSE IF status_lower = S_diverted THEN <<"Flight Diverted">>
    ELSE <<>>

\* lines 99-101
FinalStatus(score) ==
    IF score > 80 THEN "GO / GREEN"
    ELSE IF score > 50 THEN "CAUTION / YELLOW"
    ELSE "NO-GO / RED"

Scored(flight_data, taf_raw) ==
    [ score |-> StatusScore(Lower(flight_data.status), WeatherScore(taf_raw)),
      status |-> FinalStatus(StatusScore(Lower(flight_data.status),
                                         WeatherScore(taf_raw))),
      flight_info |-> flight_data,
      weather_raw |-> taf_raw,
      risk_factors |-> WeatherRisks(taf_raw)
                           \o StatusRisks(Lower(flight_data.status)) ]

analyze_reliability(details, forecast) ==
    IF details = None
    THEN [error |-> "Flight not found in Aviation Edge database (Must be Active/Scheduled)."]
    ELSE Scored(details[1], IF forecast = None THEN S_NoTAF ELSE forecast[1])

AnalyzeReliability ==
    /\ pc = "sidebar"
    /\ ~reliability.called
    /\ \E details \in FlightDetails, forecast \in Forecasts :
          reliability' = [called |-> TRUE, details |-> details, forecast |-> forecast,
                          result |-> analyze_reliability(details, forecast)]
    /\ UNCHANGED <<env, widgets, windows, results, output, range_call, buffer_math, gate, pc>>

NextRisk == AnalyzeReliability

SpecRisk == Init /\ [][NextRisk]_vars

(***************************************************************************)
(* SpecGate: the password gate (lines 16-36 and 603-623).  A session is a  *)
(* sequence of script runs; each run calls check_password and stops when   *)
(* it returns False.  The text input has key "password": submitting a text *)
(* that differs from the widget's value stores it in session_state, runs   *)
(* the on_change callback password_entered and then reruns the script.     *)
(***************************************************************************)
\* st.secrets["APP_PASSWORD"]
APP_PASSWORD == "cargo-team"

\* what a user may type into the password input
TypedPasswords == {APP_PASSWORD, "guess", "cargo", "Cargo-Team", ""}

\* how many passwords are submitted in one session
MaxSubmissions == 3

\* del st.session_state[key]
Del(state, key) == [k \in (DOMAIN state) \ {key} |-> state[k]]

\* st.session_state[key] = value
Set(state, key, value) == (key :> value) @@ state

\* a faulty callback that accepts every non-empty text (C27 must tell it apart)
password_entered_m(state) ==
    IF state["password"] # ""
    THEN Del(Set(state, "password_correct", TRUE), "password")
    ELSE Set(state, "password_correct", FALSE)

\* the callback of the text input
password_entered(state) ==
    IF state["password"] = APP_PASSWORD
    THEN Del(Set(state, "password_correct", TRUE), "password")
    ELSE Set(state, "password_correct", FALSE)

\* check_password(): its return value, whether it rendered the text input
\* and the error it showed ("" for none)
check_password(state) ==
    IF "password_correct" \notin DOMAIN state
    THEN [ran |-> TRUE, returned |-> FALSE, input |-> TRUE, error |-> ""]
    ELSE IF ~state["password_correct"]
    THEN [ran |-> TRUE, returned |-> FALSE, input |-> TRUE,
          error |-> IF version = 1 THEN "Incorrect Password" ELSE "Access Denied"]
    ELSE [ran |-> TRUE, returned |-> TRUE, input |-> FALSE, error |-> ""]

\* the value the text input holds
WidgetValue(state) == IF "password" \in DOMAIN state THEN state["password"] ELSE ""

\* a script run that nothing but a rerun request triggered (the first run of
\* the session, a browser refresh of the same session, another widget)
Rerun ==
    /\ pc = "sidebar"
    /\ gate_run' = check_password(session_state)
    /\ gate_run' # gate_run
    /\ UNCHANGED <<env, widgets, windows, results, output, calls,
                   session_state, submitted, pc>>

\* the user submits a text in the rendered input: widget value, callback,
\* script run
SubmitPassword ==
    /\ pc = "sidebar"
    /\ gate_run.ran
    /\ gate_run.input
    /\ Len(submitted) < MaxSubmissions
    /\ \E text \in TypedPasswords :
          /\ text # WidgetValue(session_state)
          /\ session_state' = password_entered(Set(session_state, "password", text))
          /\ submitted' = Append(submitted, text)
          /\ gate_run' = check_password(session_state')
    /\ UNCHANGED <<env, widgets, windows, results, output, calls, pc>>

NextGate == Rerun \/ SubmitPassword

SpecGate == Init /\ [][NextGate]_vars

(***************************************************************************)
(* Vocabulary of the properties                                            *)
(***************************************************************************)
Entries == {classified[i] : i \in 1..Len(classified)}

ReasonOf(e) == IF IsRejected(e.row) THEN e.row.Reason ELSE NoReject

\* the rule (1..4) a recorded reason names, 0 for an accepted flight
RuleOf(reason) ==
    IF reason \in {"Origin Closed", "Org Closed"} THEN 1
    ELSE IF reason = "Too Early" THEN 2
    ELSE IF reason = "Short Conn" THEN 3
    ELSE IF reason \in {"Arrives Too Late", "Arrives Late"} THEN 4
    ELSE 0

\* the four rules as the loop of the running variant evaluates them
Fails1(e) == OriginClosed(e.f, e.p_hours)
Fails2(e) == TooEarly(e.f)
Fails3(e) == ShortConn(e.f)
Fails4(e) ==
    /\ latest_arr_dt # None
    /\ IF version = 1 THEN ArrivesLate1(e.f, e.day_obj) ELSE ArrivesLate2(e.f, e.day_obj)

FirstFailing(e) ==
    IF Fails1(e) THEN 1 ELSE IF Fails2(e) THEN 2 ELSE IF Fails3(e) THEN 3
    ELSE IF Fails4(e) THEN 4 ELSE 0

Windowed == pc \in {"flights", "done"}

\* p_date_base
BaseDate == IF mode = OneTime THEN p_date ELSE days_to_search[1].date

\* departure and arrival of a flight as instants
DepInstant(f) == 1440 * f.DepFull.date + Strptime(f.DepFull.time)
ArrInstant(f) == 1440 * f.ArrFull.date + Strptime(f.ArrFull.time)

\* the two bounds of the feasibility window for a search date
EarliestFor(date) == 1440 * date + p_time + total_prep
LatestFor(date) == 1440 * (date + del_offset) + del_time[1] - total_post

(***************************************************************************)
(* C1: in both loops the reason recorded for a flight is that of the FIRST *)
(* failing rule in the order Origin Closed, Too Early, Short Connection,   *)
(* Arrives Too Late.  The second loop assigns `reject` in rules 2 and 3    *)
(* without testing it, so there the last failing rule of 1..3 is recorded. *)
(***************************************************************************)
C1_FirstFailingRule == \A e \in Entries : RuleOf(ReasonOf(e)) = FirstFailing(e)

(***************************************************************************)
(* C2: a flight that passes the origin-hours rule is rejected as Too Early *)
(* exactly when its departure instant (date and time) is earlier than      *)
(* (search date at p_time) + total_prep, also when the prep minutes carry  *)
(* that instant past midnight.  (First loop; the code compares the clock   *)
(* texts f['Dep Time'] < earliest_dep_str only.)                           *)
(***************************************************************************)
C2_TooEarlyByInstant ==
    \A e \in Entries :
        (version = 1 /\ ~Fails1(e)) =>
            ((ReasonOf(e) = "Too Early")
                <=> (DepInstant(e.f) < EarliestFor(e.day_obj.date)))

(***************************************************************************)
(* C3: with a deadline, a flight that passes rules 1-3 is rejected as      *)
(* Arrives Too Late exactly when its arrival instant (date and time) is    *)
(* later than latest_arrival, also when the post minutes move              *)
(* latest_arrival onto an earlier day than the deadline date.              *)
(***************************************************************************)
C3_LateByInstant ==
    \A e \in Entries :
        (/\ latest_arr_dt # None
         /\ e.f.ArrFull.iso
         /\ ~Fails1(e) /\ ~Fails2(e) /\ ~Fails3(e)) =>
            ((RuleOf(ReasonOf(e)) = 4)
                <=> (ArrInstant(e.f) > LatestFor(e.day_obj.date)))

(***************************************************************************)
(* The operating window of an hours text, read as the hours table means    *)
(* it: a closed sentinel (any letter case) is never open, a "24"-hours     *)
(* text is always open, "HH:MM-HH:MM" is open from the first time to the   *)
(* second (overnight when the first is later; always when they are        *)
(* equal), anything else is unknown and permissive.                        *)
(***************************************************************************)
IsClosedText(text) == Lower(text) \in {S_closed, S_na, S_nan}

InRange(t, open, close) ==
    IF open = close THEN TRUE
    ELSE IF open < close THEN open <= t /\ t <= close
    ELSE t >= open \/ t <= close

InsideWindow(t, text) ==
    IF IsClosedText(text) THEN FALSE
    ELSE IF text = S_24Hours THEN TRUE
    ELSE IF Len(FindTimes(text)) = 2
    THEN InRange(t, Strptime(FindTimes(text)[1]), Strptime(FindTimes(text)[2]))
    ELSE TRUE

\* the hours text of the table for an airport, airline and date; <<>> when
\* the table has no row for them
TableHours(airport_code, airline, date) ==
    IF InMaster(airport_code, airline)
    THEN master[1][<<airport_code, airline>>][day_col(date)]
    ELSE <<>>

(***************************************************************************)
(* C4: the tender time is the departure time minus 120 minutes, wrapping   *)
(* to the previous evening before 02:00, and the flight is rejected as     *)
(* Origin Closed exactly when the tender time is not inside the origin     *)
(* facility's operating window for its carrier.  (First loop.)             *)
(***************************************************************************)
C4_OriginClosedIffOutsideWindow ==
    \A e \in Entries :
        version = 1 =>
            LET dep == Strptime(e.f.DepTime)
                tender == IF dep >= 120 THEN dep - 120 ELSE dep + 1440 - 120
            IN  /\ TenderTime(e.f) = FmtHM(tender)
                /\ (ReasonOf(e) = "Origin Closed")
                       <=> ~InsideWindow(tender,
                               TableHours(p_code, e.f.Airline, e.day_obj.date))

(***************************************************************************)
(* C5: destination hours never cause a rejection.  Every classified flight *)
(* is rejected exactly when it would be with an always-open destination,   *)
(* and its row differs from that row in the Note and Dest Hours columns    *)
(* only; a recovery time outside the destination hours leaves an accepted  *)
(* flight accepted.                                                        *)
(***************************************************************************)
AlwaysOpenHours == [hours |-> S_24Hours, source |-> "Master File"]

Without(row, keys) == [k \in (DOMAIN row) \ keys |-> row[k]]

SameButAdvisory(row, open_row) ==
    /\ IsRejected(row) <=> IsRejected(open_row)
    /\ Without(row, {"Note", "DestHours"}) = Without(open_row, {"Note", "DestHours"})

C5_DestinationNeverRejects ==
    /\ \A e \in Entries :
           SameButAdvisory(e.row,
               Classify(e.f, e.day_obj, e.p_hours, AlwaysOpenHours))
    /\ \A i \in 1..Len(valid_flights) : ~IsRejected(valid_flights[i])
    /\ \A i \in 1..Len(rejected_flights) : IsRejected(rejected_flights[i])
    /\ Len(valid_flights) + Len(rejected_flights) = Len(classified)

\* an accepted flight whose recovery time the destination check refuses
C5_Witness ==
    \E e \in Entries :
        /\ DestClosed(e.f, e.d_hours)
        /\ ~IsRejected(e.row)
        /\ e.row.Note = "AM Recovery"
        /\ e.row \in {valid_flights[i] : i \in 1..Len(valid_flights)}

(***************************************************************************)
(* C6: for an accepted flight whose recovery instant (arrival + 60) is     *)
(* outside the destination window, the row carries a Recovery Delay note   *)
(* and total transit minutes = prep + air time + post + recovery delay,    *)
(* where the delay runs from the recovery instant to the next opening of   *)
(* the window plus 30 minutes.  The loops compute neither a delay nor a    *)
(* transit total, and the note they attach is "AM Recovery".               *)
(***************************************************************************)
RecoveryDelay(rec, open) ==
    (IF open >= rec THEN open - rec ELSE open + 1440 - rec) + 30

C6_RecoveryDelayInTransit ==
    \A e \in Entries :
        LET rec == (Strptime(e.f.ArrTime) + 60) % 1440
            times == FindTimes(e.d_hours.hours)
        IN  (/\ ~IsRejected(e.row)
             /\ Len(times) = 2
             /\ ~InsideWindow(rec, e.d_hours.hours))
            => /\ "Note" \in DOMAIN e.row
               /\ e.row.Note = "Recovery Delay"
               /\ "Transit" \in DOMAIN e.row
               /\ e.row.Transit =
                      total_prep + (ArrInstant(e.f) - DepInstant(e.f)) + total_post
                          + RecoveryDelay(rec, Strptime(times[1]))

C8_PrepAndEarliestDeparture ==
    Windowed =>
        /\ total_prep >= d1 + 60
        /\ total_prep >= custom_p_buff + 60
        /\ total_prep \in {d1 + 60, custom_p_buff + 60}
        /\ earliest_dep_dt.min \in 0..1439
        /\ Instant(earliest_dep_dt) = 1440 * BaseDate + p_time + total_prep
        /\ (p_time = HM(9, 0) /\ d1 = 90 /\ custom_p_buff = 120) =>
               /\ total_prep = 180
               /\ earliest_dep_dt = [date |-> BaseDate, min |-> HM(12, 0)]

\* the window of a run whose prep minutes carry past midnight
C8_Witness ==
    /\ Windowed
    /\ p_time = HM(22, 0)
    /\ d1 = 150
    /\ total_prep = 210
    /\ earliest_dep_dt = [date |-> BaseDate + 1, min |-> HM(1, 30)]

(***************************************************************************)
(* C9: with a deadline, post minutes = max(delivery drive minutes,         *)
(* delivery drive buffer) + 60 and latest_arrival = (base date + transit   *)
(* offset days, at the deadline time) - post minutes; without a deadline   *)
(* latest_arrival is None and no flight is rejected as Arrives Too Late.   *)
(***************************************************************************)
C9_PostAndLatestArrival ==
    Windowed =>
        IF has_deadline
        THEN /\ total_post >= d2 + 60
             /\ total_post >= custom_d_buff + 60
             /\ total_post \in {d2 + 60, custom_d_buff + 60}
             /\ latest_arr_dt # None
             /\ latest_arr_dt[1].min \in 0..1439
             /\ Instant(latest_arr_dt[1])
                    = 1440 * (BaseDate + del_offset) + del_time[1] - total_post
        ELSE /\ latest_arr_dt = None
             /\ \A e \in Entries : RuleOf(ReasonOf(e)) # 4

\* a deadline whose post minutes move latest_arrival to the day before
C9_Witness ==
    /\ Windowed
    /\ has_deadline
    /\ del_time = Some(HM(1, 0))
    /\ del_offset = 1
    /\ total_post = 180
    /\ latest_arr_dt = Some([date |-> BaseDate, min |-> HM(22, 0)])

(***************************************************************************)
(* C10: for an overnight window (open later than close) the range check    *)
(* accepts t iff t >= open or t <= close; for a same-day window (open <    *)
(* close) iff open <= t <= close.  (First variant of the function, under   *)
(* SpecRange.)  The function answers True for any text that contains "24"  *)
(* before it reads the times, so a window such as 08:24-17:00 or           *)
(* 08:00-24:00 accepts every clock time.                                   *)
(***************************************************************************)
C10_RangeCheck ==
    (range_call.called /\ version = 1) =>
        /\ range_call.open > range_call.close =>
               (range_call.result
                   <=> (range_call.t >= range_call.open
                        \/ range_call.t <= range_call.close))
        /\ range_call.open < range_call.close =>
               (range_call.result
                   <=> (range_call.open <= range_call.t
                        /\ range_call.t <= range_call.close))


(***************************************************************************)
(* C11: when a window's open time equals its close time the range check    *)
(* accepts every clock time.  (Under SpecRange.)  The first variant reads  *)
(* start <= end as a same-day window and accepts only t = open.            *)
(***************************************************************************)
C11_EqualOpenCloseAlwaysOpen ==
    (range_call.called /\ range_call.open = range_call.close)
        => range_call.result


(***************************************************************************)
(* C12: an hours value that carries a closed sentinel ("closed", "no       *)
(* cargo", "n/a", "unavailable", any letter case) resolves to Closed along *)
(* get_cargo_hours -> check_time_in_range: the tender check fails and the  *)
(* flight is rejected as Origin Closed; a value containing "24" or "daily" *)
(* resolves to always open.                                                *)
(***************************************************************************)
ClosedSentinels ==
    { S_closed, S_na,
      <<"n", "o", " ", "c", "a", "r", "g", "o">>,
      <<"u", "n", "a", "v", "a", "i", "l", "a", "b", "l", "e">> }

OpenSentinels == { S_24, <<"d", "a", "i", "l", "y">> }

HasSentinel(text, sentinels) == \E w \in sentinels : Contains(w, Lower(text))

C12_ClosedSentinelResolvesClosed ==
    \A e \in Entries :
        /\ HasSentinel(TableHours(p_code, e.f.Airline, e.day_obj.date), ClosedSentinels)
               => /\ OriginClosed(e.f, e.p_hours)
                  /\ RuleOf(ReasonOf(e)) = 1
        /\ (/\ HasSentinel(TableHours(p_code, e.f.Airline, e.day_obj.date), OpenSentinels)
            /\ ~HasSentinel(TableHours(p_code, e.f.Airline, e.day_obj.date), ClosedSentinels))
               => /\ ~OriginClosed(e.f, e.p_hours)
                  /\ RuleOf(ReasonOf(e)) # 1


(***************************************************************************)
(* C13: an (airport, carrier) pair without a row in the master hours table *)
(* is treated as always open whatever the fallback lookup returns: no      *)
(* flight of such a pair is rejected as Origin Closed.                     *)
(***************************************************************************)
C13_UnknownPairNeverOriginClosed ==
    \A e \in Entries :
        ~InMaster(p_code, e.f.Airline)
            => /\ ~OriginClosed(e.f, e.p_hours)
               /\ RuleOf(ReasonOf(e)) # 1


(***************************************************************************)
(* C14: in a run over several search dates, the facility window used to    *)
(* classify a flight on a search date is the one resolved for that date's  *)
(* day category (weekday, Saturday, Sunday).  (Under SpecWeek.)  The loop  *)
(* keeps the hours in a cache keyed by (airport, airline) only, so the     *)
(* hours of the first search date are used for the later ones.             *)
(***************************************************************************)
ResolvedFor(airport_code, airline, date) ==
    IF version = 1 THEN get_cargo_hours(airport_code, airline, date)
    ELSE get_cargo_hours2(airport_code, airline, date)

C14_HoursOfTheSearchDate ==
    \A e \in Entries :
        /\ e.p_hours \in ResolvedFor(p_code, e.f.Airline, e.day_obj.date)
        /\ e.d_hours \in ResolvedFor(d_code, e.f.Airline, e.day_obj.date)


(***************************************************************************)
(* C15: in recurring mode the expander yields exactly one entry per        *)
(* selected weekday and none for unselected weekdays; each entry's date    *)
(* falls on its weekday, is strictly after today and at most 7 days after  *)
(* today (today's own weekday yields today + 7).  (Under SpecExpand.)      *)
(***************************************************************************)
Expanded == pc # "sidebar" /\ mode = Reoccurring

EntriesFor(d) == {i \in 1..Len(days_to_search) : days_to_search[i].day = d}

SelectedDays == {days_selected[i] : i \in 1..Len(days_selected)}

C15_OneNextOccurrencePerSelectedDay ==
    Expanded =>
        /\ \A d \in Weekdays :
               Cardinality(EntriesFor(d)) = IF d \in SelectedDays THEN 1 ELSE 0
        /\ \A i \in 1..Len(days_to_search) :
               /\ days_to_search[i].day \in Weekdays
               /\ days_to_search[i].date % 7 = day_map[days_to_search[i].day]
               /\ days_to_search[i].date > today
               /\ days_to_search[i].date <= today + 7
               /\ day_map[days_to_search[i].day] = today % 7
                      => days_to_search[i].date = today + 7

\* a selection that holds today's weekday and another one
C15_Witness ==
    /\ Expanded
    /\ Len(days_selected) = 2
    /\ \E i \in 1..Len(days_to_search) : days_to_search[i].date = today + 7
    /\ \E i \in 1..Len(days_to_search) : days_to_search[i].date = today + 1

(***************************************************************************)
(* C16: the list of search dates produced in recurring mode is in          *)
(* canonical weekday order Mon..Sun whatever order the weekdays were       *)
(* selected in.  (Under SpecExpand.)  The loop appends in the order of     *)
(* days_selected.                                                          *)
(***************************************************************************)
C16_CanonicalWeekdayOrder ==
    Expanded =>
        \A i, j \in 1..Len(days_to_search) :
            i < j => day_map[days_to_search[i].day] < day_map[days_to_search[j].day]


(***************************************************************************)
(* C17: after aggregation there is exactly one schedule row per distinct   *)
(* key (airline, flight number, departure clock time, arrival clock time)  *)
(* among the accepted flights; flights sharing a key on different search   *)
(* dates collapse into that row, flights with different keys are never     *)
(* merged, and the row's days of operation are exactly the day labels of   *)
(* the search dates on which that flight was accepted.  (Under SpecWeek.)  *)
(***************************************************************************)
Aggregated == report \in {"schedule", "KeyError"}

Accepted == {e \in Entries : ~IsRejected(e.row)}

AcceptedOn(key) == {e.day_obj.day : e \in {a \in Accepted : Key(a.f) = key}}

RowsOf(key) == {i \in 1..Len(final_rows) : Key(final_rows[i]) = key}

DaysListed(row) == {row.DaysOfOp[k] : k \in 1..Len(row.DaysOfOp)}

C17_OneRowPerKey ==
    Aggregated =>
        /\ \A e \in Accepted : Cardinality(RowsOf(Key(e.f))) = 1
        /\ \A i \in 1..Len(final_rows) :
               /\ \E e \in Accepted : Key(e.f) = Key(final_rows[i])
               /\ DaysListed(final_rows[i]) = AcceptedOn(Key(final_rows[i]))
               /\ Len(final_rows[i].DaysOfOp) = Cardinality(AcceptedOn(Key(final_rows[i])))

\* the same flight accepted on both search dates collapses into one row
C17_Witness ==
    /\ Aggregated
    /\ Len(valid_flights) = 2
    /\ Len(final_rows) = 1
    /\ Len(final_rows[1].DaysOfOp) = 2

\* two accepted flights with different keys stay two rows
C17_WitnessDistinct ==
    /\ Aggregated
    /\ Len(valid_flights) = 2
    /\ Len(final_rows) = 2


(***************************************************************************)
(* C18: the schedule rows output by aggregation are ordered by total       *)
(* transit minutes ascending, whatever order the flights were retrieved    *)
(* in.  (Under SpecWeek.)  The output section never sorts: the rows come   *)
(* out in the order their keys were first accepted.                        *)
(***************************************************************************)
TransitMinutes(row) ==
    total_prep + (ArrInstant(row) - DepInstant(row)) + total_post

C18_RowsSortedByTransit ==
    report = "schedule" =>
        \A i, j \in 1..Len(final_rows) :
            i < j => TransitMinutes(final_rows[i]) <= TransitMinutes(final_rows[j])


(***************************************************************************)
(* C19: a flight whose departure or arrival time is missing or unparsable  *)
(* does not crash the run and is not accepted: it appears in the rejected  *)
(* list with the reason "Invalid Time Data".  The loops parse the          *)
(* departure clock time outside any try (the run ends with ValueError) and *)
(* skip the arrival check when the arrival stamp does not parse (the       *)
(* flight is accepted); search_flights drops an itinerary with an empty    *)
(* time before the loop sees it.                                           *)
(***************************************************************************)
InvalidTimeData(f) ==
    \/ Strptime(f.DepTime) = ParseError
    \/ Strptime(f.ArrTime) = ParseError
    \/ ~f.ArrFull.iso

C19_InvalidTimeDataRejected ==
    /\ report # "ValueError"
    /\ \A e \in Entries :
           InvalidTimeData(e.f) =>
               /\ IsRejected(e.row)
               /\ e.row.Reason = "Invalid Time Data"
               /\ \E i \in 1..Len(rejected_flights) : rejected_flights[i] = e.row


(***************************************************************************)
(* C20: when earliest_departure is later than latest_arrival the run       *)
(* reports a top-level diagnostic of its own, never the report of a run    *)
(* whose flights were all rejected or in which none were found.  The       *)
(* output section has no such branch: it tests valid_flights and           *)
(* rejected_flights only.                                                  *)
(***************************************************************************)
Contradictory ==
    /\ latest_arr_dt # None
    /\ Instant(earliest_dep_dt) > Instant(latest_arr_dt[1])

\* the reports of a run that matched no flight
ZeroMatchReports == {"rejected", "no flights found", "no verified flights"}

C20_InfeasibleHasOwnDiagnostic ==
    (pc = "done" /\ Contradictory) => report \notin ZeroMatchReports


(***************************************************************************)
(* C21: no classification runs with a negative transit offset: in every    *)
(* mode and in both variants, a delivery date that yields del_offset < 0   *)
(* stops the run with an error before any window computation or flight     *)
(* classification.  Only the one-time mode of the first variant tests      *)
(* del_offset (line 338); its recurring mode and the one-time mode of the  *)
(* second variant run on with the negative offset.                         *)
(***************************************************************************)
C21_NegativeOffsetStops ==
    del_offset < 0 =>
        /\ pc = "stopped"
        /\ total_prep = 0
        /\ latest_arr_dt = None
        /\ classified = <<>>


(***************************************************************************)
(* C22: the reliability score returned by analyze_reliability is always    *)
(* within 0..100, for every combination of the weather markers TS, FG/BR,  *)
(* SN, VV in the forecast text and every flight status.  (Under SpecRisk.) *)
(* The four deductions add up to 120 and are not clamped.                  *)
(***************************************************************************)
C22_ScoreWithin0To100 ==
    (reliability.called /\ "score" \in DOMAIN reliability.result)
        => reliability.result.score \in 0..100


(***************************************************************************)
(* C23: window monotonicity.  With all other inputs fixed, a larger pickup *)
(* drive buffer never makes earliest_departure earlier and a larger        *)
(* delivery drive buffer never makes latest_arrival later, for every drive *)
(* duration; buffers not above the drive duration change nothing.  (Under  *)
(* SpecWindow; both bounds as full date-times.)                            *)
(***************************************************************************)
C23_WindowMonotone ==
    buffer_math.called =>
        /\ Instant(buffer_math.lower.earliest_dep_dt)
               <= Instant(buffer_math.higher.earliest_dep_dt)
        /\ Instant(buffer_math.higher.latest_arr_dt)
               <= Instant(buffer_math.lower.latest_arr_dt)
        /\ buffer_math.higher.p_buff <= buffer_math.d1
               => buffer_math.higher.earliest_dep_dt = buffer_math.lower.earliest_dep_dt
        /\ buffer_math.higher.d_buff <= buffer_math.d2
               => buffer_math.higher.latest_arr_dt = buffer_math.lower.latest_arr_dt

\* the larger buffers carry earliest_departure past midnight and
\* latest_arrival back onto the day before
C23_Witness ==
    /\ buffer_math.called
    /\ buffer_math.lower.p_buff < buffer_math.higher.p_buff
    /\ buffer_math.higher.earliest_dep_dt.date > buffer_math.lower.earliest_dep_dt.date
    /\ buffer_math.higher.latest_arr_dt.date < buffer_math.lower.latest_arr_dt.date

\* two buffers below the drive duration: the window does not move
C23_WitnessNoEffect ==
    /\ buffer_math.called
    /\ buffer_math.lower.p_buff < buffer_math.higher.p_buff
    /\ buffer_math.higher.p_buff < buffer_math.d1
    /\ buffer_math.higher.earliest_dep_dt = buffer_math.lower.earliest_dep_dt


(***************************************************************************)
(* C24: in every schedule row the days-of-operation labels are listed in   *)
(* canonical order Mon, Tue, Wed, Thu, Fri, Sat, Sun with "One-Time" after *)
(* all weekdays, and no label twice, whatever order the search dates were  *)
(* processed in.  (Under SpecWeek.)                                        *)
(***************************************************************************)
CanonicalPlace(label) == IF label = "One-Time" THEN 7 ELSE day_map[label]

C24_DaysInCanonicalOrder ==
    Aggregated =>
        \A i \in 1..Len(final_rows) :
            /\ \A a, b \in 1..Len(final_rows[i].DaysOfOp) :
                   a < b => CanonicalPlace(final_rows[i].DaysOfOp[a])
                                < CanonicalPlace(final_rows[i].DaysOfOp[b])
            /\ Cardinality(DaysListed(final_rows[i])) = Len(final_rows[i].DaysOfOp)

\* a flight accepted on Friday and then on Monday is listed "Mon, Fri"
C24_Witness ==
    /\ Aggregated
    /\ Len(valid_flights) = 2
    /\ valid_flights[1].DaysOfOp = "Fri"
    /\ valid_flights[2].DaysOfOp = "Mon"
    /\ Len(final_rows) = 1
    /\ final_rows[1].DaysOfOp = <<"Mon", "Fri">>

\* the same flight accepted twice on one search date carries the label once
C24_WitnessOnce ==
    /\ Aggregated
    /\ Len(valid_flights) = 2
    /\ valid_flights[1].DaysOfOp = valid_flights[2].DaysOfOp
    /\ Len(final_rows) = 1
    /\ Len(final_rows[1].DaysOfOp) = 1


(***************************************************************************)
(* C25: every candidate the flight search returns for a search date ends   *)
(* in exactly one of valid_flights and rejected_flights, never both and    *)
(* never neither; a rejected flight carries one non-empty Reason and an    *)
(* accepted flight the day label of the search date it was classified      *)
(* under.  n_flights counts the candidates the loop has taken from the     *)
(* feed.  A candidate whose departure text is no clock time ends the run   *)
(* at strptime (line 455 / 920) and is in neither list.                    *)
(***************************************************************************)
ValidRows == {valid_flights[i] : i \in 1..Len(valid_flights)}

RejectedRows == {rejected_flights[i] : i \in 1..Len(rejected_flights)}

Reasons ==
    {"Origin Closed", "Org Closed", "Too Early", "Short Conn",
     "Arrives Too Late", "Arrives Late"}

C25_ExactlyOneList ==
    /\ Len(valid_flights) + Len(rejected_flights) = n_flights
    /\ ValidRows \cap RejectedRows = {}
    /\ \A e \in Entries :
           /\ (e.row \in ValidRows) # (e.row \in RejectedRows)
           /\ e.row \in RejectedRows => e.row.Reason \in Reasons
           /\ e.row \in ValidRows =>
                  /\ ~IsRejected(e.row)
                  /\ e.row.DaysOfOp = e.day_obj.day


(***************************************************************************)
(* C26: within one run the facility-hours cache is first-write-wins.       *)
(* get_cargo_hours is called at most once per (airport, airline) key, an   *)
(* entry once stored is never overwritten or removed, and every flight of  *)
(* the same airline is classified against the same stored origin and       *)
(* destination entries.  (Under SpecWeek: `classified` keeps the entries   *)
(* each flight was classified against, hours_calls the keys looked up.)    *)
(***************************************************************************)
CalledKeys == {hours_calls[i] : i \in 1..Len(hours_calls)}

C26_CacheFirstWriteWins ==
    /\ Cardinality(CalledKeys) = Len(hours_calls)
    /\ CalledKeys = DOMAIN airline_hours_cache
    /\ \A e \in Entries :
           /\ <<p_code, e.f.Airline>> \in DOMAIN airline_hours_cache
           /\ <<d_code, e.f.Airline>> \in DOMAIN airline_hours_cache
           /\ airline_hours_cache[<<p_code, e.f.Airline>>] = e.p_hours
           /\ airline_hours_cache[<<d_code, e.f.Airline>>] = e.d_hours
    /\ \A e1, e2 \in Entries :
           e1.f.Airline = e2.f.Airline =>
               /\ e1.p_hours = e2.p_hours
               /\ e1.d_hours = e2.d_hours

\* a Saturday flight classified against the entry stored on Friday, where
\* a lookup for Saturday would have answered otherwise
C26_Witness ==
    \E e1, e2 \in Entries :
        /\ e1.day_obj.day = "Fri"
        /\ e2.day_obj.day = "Sat"
        /\ e1.f.Airline = e2.f.Airline
        /\ e2.p_hours = airline_hours_cache[<<p_code, e2.f.Airline>>]
        /\ e2.p_hours \notin ResolvedFor(p_code, e2.f.Airline, e2.day_obj.date)
        /\ Len(hours_calls) = 2


(***************************************************************************)
(* C27: across any sequence of script reruns and password submissions in   *)
(* one session, the script continues past the password gate only in a run  *)
(* where session_state["password_correct"] is True; the flag becomes True  *)
(* only through a submission equal to APP_PASSWORD; a wrong submission     *)
(* sets it to False, the gate stays closed and an error is shown; a        *)
(* correct submission removes the entered password from session state.     *)
(* (Under SpecGate.)                                                       *)
(***************************************************************************)
Flag == IF "password_correct" \in DOMAIN session_state
        THEN Some(session_state["password_correct"]) ELSE None

Submitted == {submitted[i] : i \in 1..Len(submitted)}

C27_PasswordGate ==
    /\ (gate_run.ran /\ gate_run.returned) => Flag = Some(TRUE)
    /\ Flag = Some(TRUE) =>
           /\ submitted # <<>>
           /\ submitted[Len(submitted)] = APP_PASSWORD
           /\ "password" \notin DOMAIN session_state
    /\ (submitted # <<>> /\ submitted[Len(submitted)] # APP_PASSWORD) =>
           /\ Flag = Some(FALSE)
           /\ gate_run.ran
           /\ ~gate_run.returned
           /\ gate_run.error # ""
    /\ (submitted # <<>> /\ submitted[Len(submitted)] = APP_PASSWORD) =>
           /\ Flag = Some(TRUE)
           /\ "password" \notin DOMAIN session_state

\* the gate opens on the right password after a wrong one, and later runs
\* pass it
C27_Witness ==
    /\ Len(submitted) = 2
    /\ submitted[1] = "guess"
    /\ submitted[2] = APP_PASSWORD
    /\ gate_run.ran
    /\ gate_run.returned
    /\ Flag = Some(TRUE)
    /\ "password" \notin DOMAIN session_state

\* the gate stays closed after a wrong password
C27_WitnessClosed ==
    /\ submitted = <<"cargo">>
    /\ Flag = Some(FALSE)
    /\ ~gate_run.returned
    /\ gate_run.error # ""

=============================================================================
